---------------------------- MODULE Spec2Model ----------------------------
(***************************************************************************)
(* Model of finalBoss.py, the duplicate-shop detection engine.             *)
(*                                                                         *)
(* Strings are sequences of one-character strings ("a", " ", "|", ...);    *)
(* the token "U1780" stands for one character of the Khmer block.          *)
(* A missing cell (pandas NaN) is the value NaN.                           *)
(*                                                                         *)
(* Geometry: every record lies on the meridian of longitude 0, north of   *)
(* the equator.  Latitude is an integer count of 0.1 m steps of meridian  *)
(* arc from the equator, so the geodesic distance of two records, in      *)
(* units of 0.0001 km, is the absolute difference of their latitudes.     *)
(* Degrees of latitude follow from the arc on the WGS-84 ellipsoid that   *)
(* geopy uses (latitude_degrees).  A coordinate that pd.to_numeric parsed *)
(* as infinite is the value Inf.                                           *)
(***************************************************************************)
EXTENDS Integers, Sequences, FiniteSets, TLC

VARIABLES
    mode,         \* the mode selector handed to main
    df,           \* the loaded rows, after dropna and classification
    all_results,  \* main's accumulated list of result rows
    result_df,    \* the final output (empty until written)
    log,          \* per executed pass: what find_suspicious_pairs did
    pc            \* main's position

vars == <<mode, df, all_results, result_df, log, pc>>

-----------------------------------------------------------------------------
(* Bounds and program constants *)

MaxRecords == 4

\* 0.10 km, in units of 0.0001 km
DISTANCE_THRESHOLD_KM == 1000

MIN_NAME_LENGTH == 3

\* the factor 111 of line 68
KmPerDegree == 111

\* a non-finite coordinate (float inf)
Inf == 2000000000

-----------------------------------------------------------------------------
(* Strings *)

NaN == <<"NaN">>

isna(x) == x = NaN

notna(x) == x # NaN

Ord(c) ==
    CASE c = " " -> 32
      [] c = "1" -> 49
      [] c = "2" -> 50
      [] c = "3" -> 51
      [] c = "4" -> 52
      [] c = "5" -> 53
      [] c = "A" -> 65
      [] c = "B" -> 66
      [] c = "C" -> 67
      [] c = "E" -> 69
      [] c = "M" -> 77
      [] c = "N" -> 78
      [] c = "O" -> 79
      [] c = "P" -> 80
      [] c = "X" -> 88
      [] c = "a" -> 97
      [] c = "b" -> 98
      [] c = "c" -> 99
      [] c = "e" -> 101
      [] c = "m" -> 109
      [] c = "n" -> 110
      [] c = "o" -> 111
      [] c = "p" -> 112
      [] c = "x" -> 120
      [] c = "|" -> 124
      [] c = "U1780" -> 6016

UpperCase == {"A", "B", "C", "E", "M", "N", "O", "P", "X"}

LowerCase == {"a", "b", "c", "e", "m", "n", "o", "p", "x"}

Upper(c) ==
    CASE c = "a" -> "A" [] c = "b" -> "B" [] c = "c" -> "C" [] c = "e" -> "E"
      [] c = "m" -> "M" [] c = "n" -> "N" [] c = "o" -> "O" [] c = "p" -> "P"
      [] c = "x" -> "X" [] OTHER -> c

Lower(c) ==
    CASE c = "A" -> "a" [] c = "B" -> "b" [] c = "C" -> "c" [] c = "E" -> "e"
      [] c = "M" -> "m" [] c = "N" -> "n" [] c = "O" -> "o" [] c = "P" -> "p"
      [] c = "X" -> "x" [] OTHER -> c

IsCased(c) == c \in UpperCase \cup LowerCase

RECURSIVE lstrip(_)
lstrip(s) == IF s # <<>> /\ Head(s) = " " THEN lstrip(Tail(s)) ELSE s

RECURSIVE rstrip(_)
rstrip(s) ==
    IF s # <<>> /\ s[Len(s)] = " " THEN rstrip(SubSeq(s, 1, Len(s) - 1)) ELSE s

\* str.strip()
strip(s) == rstrip(lstrip(s))

\* str.lower()
lower(s) == [i \in 1..Len(s) |-> Lower(s[i])]

\* str.title(): a cased character is upper-cased after an uncased one (or at
\* the start) and lower-cased after a cased one
title(s) ==
    [i \in 1..Len(s) |->
        IF i = 1 \/ ~IsCased(s[i - 1]) THEN Upper(s[i]) ELSE Lower(s[i])]

\* re.search over the Khmer block, code points 0x1780..0x17FF
HasKhmer(s) == \E i \in 1..Len(s) : Ord(s[i]) >= 6016 /\ Ord(s[i]) <= 6143

\* a in b, for strings
Contains(b, a) ==
    \E i \in 0..(Len(b) - Len(a)) : SubSeq(b, i + 1, i + Len(a)) = a

\* a < b, for strings: by code point, a proper prefix first
RECURSIVE StrLess(_, _)
StrLess(a, b) ==
    IF b = <<>> THEN FALSE
    ELSE IF a = <<>> THEN TRUE
    ELSE IF Ord(Head(a)) # Ord(Head(b)) THEN Ord(Head(a)) < Ord(Head(b))
    ELSE StrLess(Tail(a), Tail(b))

\* sorted([a, b])
sorted2(a, b) == IF StrLess(b, a) THEN <<b, a>> ELSE <<a, b>>

\* '|'.join(sorted([a, b]))
joined_key(a, b) == sorted2(a, b)[1] \o <<"|">> \o sorted2(a, b)[2]

-----------------------------------------------------------------------------
(* Name gate *)

normalize_name(name) ==
    IF isna(name) \/ strip(name) = <<>> THEN <<>>
    ELSE LET cleaned == strip(name)
         IN  IF HasKhmer(cleaned) THEN cleaned ELSE title(cleaned)

\* line 47 with the containment tested in one direction only
is_name_similar_one_way(name1, name2) ==
    LET n1 == lower(normalize_name(name1))
        n2 == lower(normalize_name(name2))
    IN  IF Len(n1) < MIN_NAME_LENGTH \/ Len(n2) < MIN_NAME_LENGTH THEN FALSE
        ELSE Contains(n2, n1)

is_name_similar(name1, name2) ==
    LET n1 == lower(normalize_name(name1))
        n2 == lower(normalize_name(name2))
    IN  IF Len(n1) < MIN_NAME_LENGTH \/ Len(n2) < MIN_NAME_LENGTH THEN FALSE
        ELSE Contains(n2, n1) \/ Contains(n1, n2)

-----------------------------------------------------------------------------
(* Classification, lines 163-164 *)

\* .replace(['nan', 'NaN', 'None', ''], np.nan)
replace_blank_codes(code) ==
    IF code \in {<<"n", "a", "n">>, <<"N", "a", "N">>,
                 <<"N", "o", "n", "e">>, <<>>}
    THEN NaN ELSE code

is_secured_of(code) ==
    LET c == replace_blank_codes(code)
    IN  notna(c) /\ strip(c) # <<>>

\* one row of df after lines 163-164
classify(row) ==
    [CustomerID   |-> row.CustomerID,
     ShopName     |-> row.ShopName,
     ProspectCode |-> replace_blank_codes(row.ProspectCode),
     Latitude     |-> row.Latitude,
     is_secured   |-> is_secured_of(row.ProspectCode)]

IsSecuredRow(r) == r.is_secured

IsUnsecuredRow(r) == ~r.is_secured

secured == SelectSeq(df, IsSecuredRow)

unsecured == SelectSeq(df, IsUnsecuredRow)

-----------------------------------------------------------------------------
(* Geometry and the spatial index *)

Abs(x) == IF x < 0 THEN -x ELSE x

isfinite(x) == x # Inf

\* geodesic(a, b).kilometers, in units of 0.0001 km
geodesic(latA, latB) == Abs(latA - latB)

\* The sign of fl(d / 10000) - d / 10000, where fl is the nearest binary64
\* value: the binary expansion of the fraction r / 10000 is followed for the
\* `need` significant bits a double keeps, and what is left decides which way
\* the 53-bit value was rounded (to even on a tie).
RECURSIVE bit_length(_)
bit_length(i) == IF i = 0 THEN 0 ELSE 1 + bit_length(i \div 2)

RECURSIVE float_error(_, _, _, _)
float_error(r, need, started, last) ==
    IF need = 0
    THEN IF r = 0 THEN 0
         ELSE IF 2 * r > 10000 THEN 1
         ELSE IF 2 * r < 10000 THEN 0 - 1
         ELSE IF last = 1 THEN 1 ELSE 0 - 1
    ELSE IF r = 0 THEN 0
    ELSE LET bit == IF 2 * r >= 10000 THEN 1 ELSE 0
             rest == 2 * r - bit * 10000
         IN  IF ~started /\ bit = 0
             THEN float_error(rest, need, FALSE, 0)
             ELSE float_error(rest, need - 1, TRUE, bit)

float_sign(d) ==
    float_error(d % 10000, 53 - bit_length(d \div 10000),
                d \div 10000 > 0, (d \div 10000) % 2)

\* round(distance_km, 3), in units of 0.001 km.  round() rounds the exact
\* value of the float distance_km, here the double nearest to d / 10000: a
\* distance written ...5 rounds down when that double lies below the half
\* (0.0045 -> 0.004), up when it lies above (0.0035 -> 0.004), and to the even
\* neighbour when the double is the half itself (0.0625 -> 0.062).
round3(d) ==
    IF d % 10 # 5 THEN (d + 5) \div 10
    ELSE LET q == d \div 10
             s == float_sign(d)
         IN  IF s < 0 THEN q
             ELSE IF s > 0 THEN q + 1
             ELSE IF q % 2 = 0 THEN q ELSE q + 1

\* DISTANCE_THRESHOLD_KM * 111 * 1.5, in units of 0.0001 degree.  The float
\* product is 16.650000000000002, just above 16.65 degrees.
max_degrees == (DISTANCE_THRESHOLD_KM * KmPerDegree * 3) \div 2

\* a * b / 10^9 for 0 <= a, b < 2^31, to within one unit, from the products
\* of the five-digit halves so that no intermediate value leaves 32 bits
mul9(a, b) ==
    LET ah == a \div 100000
        al == a % 100000
        bh == b \div 100000
        bl == b % 100000
        p1 == ah * bl
        p2 == al * bh
    IN  ah * bh * 10 + (p1 \div 10000) + (p2 \div 10000)
        + ((p1 % 10000) + (p2 % 10000)
           + (((al \div 10) * (bl \div 10)) \div 1000)) \div 10000

\* the factor 1 - x^2/(2m(2m+1)) (1 - ...) of the sine series, scaled by
\* 10^9; y is x^2 / 4 and ks holds the values m(2m+1)
RECURSIVE sin_series(_, _, _)
sin_series(y, t, ks) ==
    IF ks = <<>> THEN t
    ELSE sin_series(y, 1000000000 - ((2 * mul9(y, t)) \div Head(ks)),
                    Tail(ks))

\* sin(theta) scaled by 10^9, theta from 0 to 180 degrees in units of
\* 10^-7 degree
sin_of(theta) ==
    LET tr == IF theta > 900000000 THEN 1800000000 - theta ELSE theta
        x == mul9(tr, 1745329252)
        y == mul9(x \div 2, x \div 2)
    IN  mul9(x, sin_series(y, 1000000000, <<78, 55, 36, 21, 10, 3>>))

cos_of(theta) ==
    IF theta <= 900000000 THEN sin_of(900000000 - theta)
    ELSE 0 - sin_of(theta - 900000000)

\* The geodetic latitude, in units of 10^-7 degree, of the point lat steps of
\* meridian arc north of the equator on the WGS-84 ellipsoid (the one geodesic
\* measures on): the rectifying latitude mu = arc / 6367449.1458 m, then
\*   mu + 0.1443181326 sin 2mu + 0.0002120488 sin 4mu + 0.0000004267 sin 6mu
\* degrees, with sin 4mu = 2 sin 2mu cos 2mu and
\* sin 6mu = sin 2mu (3 - 4 sin^2 2mu).  The result is within 0.6 * 10^-7
\* degree of the exact latitude.
RECURSIVE latitude_degrees(_)
latitude_degrees(lat) ==
    IF lat < 0 THEN 0 - latitude_degrees(0 - lat)
    ELSE LET t == mul9(lat, 176880868)
             mu == 9 * lat - ((t + 50) \div 100)
             s2 == sin_of(2 * mu)
             c2 == cos_of(2 * mu)
             v == 1500000000 - 2 * mul9(s2, s2)
             term4 == mul9(2120488, 2 * mul9(s2, Abs(c2)))
             term6 == mul9(4267, 2 * mul9(s2, Abs(v)))
             corr == mul9(1443181326, s2)
                     + (IF c2 < 0 THEN 0 - term4 ELSE term4)
                     + (IF v < 0 THEN 0 - term6 ELSE term6)
         IN  9 * lat + ((corr - 10 * t + 500) \div 1000)

\* The tree's Euclidean distance between two projected points, in units of
\* 10^-7 degree.  Both lie on the meridian of longitude 0, where the scaled
\* longitude is 0, so the distance is the difference of the latitudes in
\* degrees; it is known to within 1.1 units.
tree_distance(latA, latB) ==
    Abs(latitude_degrees(latA) - latitude_degrees(latB))

\* d1 <= d2 as far as two distances known to within 1.1 units can tell
not_farther(d1, d2) == d1 <= d2 + 2

\* distance_upper_bound = max_degrees (line 71): a neighbour is returned when
\* its distance in degrees is below the float bound, so a neighbour at 16.65
\* degrees exactly is still returned.  For a tree distance d,
\* within_upper_bound holds when the neighbour is inside the bound whatever the digits the distance is not
\* known to, beyond_upper_bound when it is outside; when neither holds the
\* query may or may not return it.
within_upper_bound(d) == d + 2 <= max_degrees * 1000

beyond_upper_bound(d) == d > max_degrees * 1000 + 1

\* the tree distances from a query point at latitude p to the points of the
\* secondary set, in their order
RECURSIVE distances_to(_, _)
distances_to(p, df_secondary) ==
    IF df_secondary = <<>> THEN <<>>
    ELSE <<tree_distance(p, Head(df_secondary).Latitude)>>
         \o distances_to(p, Tail(df_secondary))

\* The rows tree.query may return for a query point at latitude p: the k
\* nearest points of the secondary set within the upper bound, nearest first,
\* padded with the index len(secondary) (here Len + 1).  Points at equal
\* distance come in an order that depends on the tree's internal layout.
query_rows(p, df_secondary, k) ==
    LET n == Len(df_secondary)
        D == distances_to(p, df_secondary)
    IN  { r \in [1..k -> 1..(n + 1)] :
            /\ \A t \in 1..k : r[t] <= n => ~beyond_upper_bound(D[r[t]])
            /\ \A t, u \in 1..k :
                  t < u => /\ r[t] = n + 1 => r[u] = n + 1
                           /\ (r[t] <= n /\ r[u] <= n) =>
                                 (r[t] # r[u] /\ not_farther(D[r[t]], D[r[u]]))
            /\ \A j \in 1..n :
                  (\A t \in 1..k : r[t] # j) =>
                      \A t \in 1..k :
                          /\ within_upper_bound(D[j]) => r[t] <= n
                          /\ r[t] <= n => not_farther(D[r[t]], D[j]) }

\* all functions from the latitudes in Ps to a row of query_rows
RECURSIVE rows_by_point(_, _, _)
rows_by_point(Ps, df_secondary, k) ==
    IF Ps = {} THEN { <<>> }
    ELSE LET p == CHOOSE x \in Ps : TRUE
         IN  { (p :> r) @@ f : r \in query_rows(p, df_secondary, k),
                               f \in rows_by_point(Ps \ {p}, df_secondary, k) }

\* The (distances, indices) results tree.query may return, as the indices
\* array: one row per primary record.  The query is a function of the query
\* point, so records at the same coordinates get the same row.
tree_query(df_primary, df_secondary, k) ==
    LET Ps == { df_primary[i].Latitude : i \in 1..Len(df_primary) }
    IN  { [i \in 1..Len(df_primary) |-> f[df_primary[i].Latitude]] :
            f \in rows_by_point(Ps, df_secondary, k) }

\* cKDTree(secondary_scaled) raises on non-finite data (line 60, outside try)
tree_build_raises(df_secondary) ==
    \E j \in 1..Len(df_secondary) : ~isfinite(df_secondary[j].Latitude)

\* tree.query raises on a non-finite query point (line 71, inside try)
tree_query_raises(df_primary) ==
    \E i \in 1..Len(df_primary) : ~isfinite(df_primary[i].Latitude)

-----------------------------------------------------------------------------
(* find_suspicious_pairs, lines 52-139 *)

\* line 67
k_of(is_self_comparison) == IF is_self_comparison THEN 2 ELSE 1

\* lines 87 and 91: the rank of the row that is taken as the neighbour
neighbor_idx_of(is_self_comparison, row) ==
    IF is_self_comparison THEN row[2] ELSE row[1]

\* lines 88 and 92: no neighbour within the bound, or (self pass) the record
\* itself
no_neighbor(is_self_comparison, neighbor_idx, i, df_secondary) ==
    IF is_self_comparison
    THEN neighbor_idx > Len(df_secondary) \/ neighbor_idx = i
    ELSE neighbor_idx > Len(df_secondary)

\* lines 81 and 96
missing_fields(row) == isna(row.CustomerID) \/ isna(row.ShopName)

\* line 99 without the .strip() calls
same_customer_untrimmed(row_primary, row_secondary) ==
    row_primary.CustomerID = row_secondary.CustomerID

\* line 99
same_customer(row_primary, row_secondary) ==
    strip(row_primary.CustomerID) = strip(row_secondary.CustomerID)

\* line 106 deciding on the reported, rounded distance
beyond_threshold_rounded(distance_km) ==
    round3(distance_km) * 10 > DISTANCE_THRESHOLD_KM

\* line 106
beyond_threshold(distance_km) == distance_km > DISTANCE_THRESHOLD_KM

\* line 114
pair_key_of(id_a, id_b) == joined_key(id_a, id_b)

\* lines 119-120
comparison_type_of(is_self_comparison, df_primary) ==
    IF is_self_comparison /\ df_primary[1].is_secured THEN "Secured vs Secured"
    ELSE IF is_self_comparison THEN "Unsecured vs Unsecured"
    ELSE "Unsecured vs Secured"

\* lines 122-137 (the constant columns and the longitudes left out)
result_row(row_primary, row_secondary, distance_km, comparison_type) ==
    [CustomerIDA   |-> strip(row_primary.CustomerID),
     ShopNameA     |-> normalize_name(row_primary.ShopName),
     ProspectCodeA |-> IF notna(row_primary.ProspectCode)
                       THEN strip(row_primary.ProspectCode) ELSE <<>>,
     LatitudeA     |-> row_primary.Latitude,
     CustomerIDB   |-> strip(row_secondary.CustomerID),
     ShopNameB     |-> normalize_name(row_secondary.ShopName),
     ProspectCodeB |-> IF notna(row_secondary.ProspectCode)
                       THEN strip(row_secondary.ProspectCode) ELSE <<>>,
     LatitudeB     |-> row_secondary.Latitude,
     DistanceKm    |-> round3(distance_km),
     ComparisonType |-> comparison_type]

\* lines 75-139: the loop over the primary records, given the indices array
scan_pairs(df_primary, df_secondary, is_self_comparison, indices) ==
    LET step[i \in 0..Len(df_primary)] ==
          IF i = 0 THEN [results |-> <<>>, processed_pairs |-> {}]
          ELSE
            LET acc == step[i - 1]
                row_primary == df_primary[i]
                neighbor_idx == neighbor_idx_of(is_self_comparison, indices[i])
            IN
            IF missing_fields(row_primary) THEN acc
            ELSE IF no_neighbor(is_self_comparison, neighbor_idx, i,
                                df_secondary) THEN acc
            ELSE
              LET row_secondary == df_secondary[neighbor_idx]
                  distance_km == geodesic(row_primary.Latitude,
                                          row_secondary.Latitude)
                  pair_key == pair_key_of(strip(row_primary.CustomerID),
                                          strip(row_secondary.CustomerID))
              IN
              IF missing_fields(row_secondary) THEN acc
              ELSE IF same_customer(row_primary, row_secondary) THEN acc
              ELSE IF beyond_threshold(distance_km) THEN acc
              ELSE IF ~is_name_similar(row_primary.ShopName,
                                       row_secondary.ShopName) THEN acc
              ELSE IF pair_key \in acc.processed_pairs THEN acc
              ELSE [results |->
                        Append(acc.results,
                               result_row(row_primary, row_secondary,
                                          distance_km,
                                          comparison_type_of(
                                              is_self_comparison, df_primary))),
                    processed_pairs |-> acc.processed_pairs \cup {pair_key}]
    IN  step[Len(df_primary)].results

\* line 53
too_few(df_primary, df_secondary) ==
    Len(df_primary) < 2 \/ Len(df_secondary) < 2

\* What one call find_suspicious_pairs(df_primary, df_secondary, is_self)
\* can do: the set of [outcome, indices, results] it may end with.
\*   "too_few"      line 54, returns []
\*   "raised"       line 60 raises; the exception leaves the function
\*   "query_failed" line 73, returns []
\*   "ran"          line 139, returns results
find_suspicious_pairs(df_primary, df_secondary, is_self_comparison) ==
    IF too_few(df_primary, df_secondary)
    THEN { [outcome |-> "too_few", indices |-> <<>>, results |-> <<>>] }
    ELSE IF tree_build_raises(df_secondary)
    THEN { [outcome |-> "raised", indices |-> <<>>, results |-> <<>>] }
    ELSE IF tree_query_raises(df_primary)
    THEN { [outcome |-> "query_failed", indices |-> <<>>, results |-> <<>>] }
    ELSE { [outcome |-> "ran", indices |-> ix,
            results |-> scan_pairs(df_primary, df_secondary,
                                   is_self_comparison, ix)] :
              ix \in tree_query(df_primary, df_secondary,
                                k_of(is_self_comparison)) }

-----------------------------------------------------------------------------
(* main, lines 141-228 *)

\* line 201
Pair_ID(row) == joined_key(strip(row.CustomerIDA), strip(row.CustomerIDB))

\* line 204 left out
drop_nothing(rows) == rows

\* line 204 with keep='last'
drop_duplicates_keep_last(rows) ==
    LET keep(i) ==
          \A j \in (i + 1)..Len(rows) : Pair_ID(rows[j]) # Pair_ID(rows[i])
        F[i \in 0..Len(rows)] ==
            IF i = 0 THEN <<>>
            ELSE IF keep(i) THEN Append(F[i - 1], rows[i]) ELSE F[i - 1]
    IN  F[Len(rows)]

\* line 204: drop_duplicates(subset=['Pair_ID']), which keeps the first
drop_duplicates(rows) ==
    LET keep(i) == \A j \in 1..(i - 1) : Pair_ID(rows[j]) # Pair_ID(rows[i])
        F[i \in 0..Len(rows)] ==
            IF i = 0 THEN <<>>
            ELSE IF keep(i) THEN Append(F[i - 1], rows[i]) ELSE F[i - 1]
    IN  F[Len(rows)]

\* the orders of the rows with index in I that ascend in 'Distance (km)'
RECURSIVE ascending_orders(_, _)
ascending_orders(rows, I) ==
    IF I = {} THEN { <<>> }
    ELSE LET least == { i \in I :
                          \A j \in I : rows[i].DistanceKm <= rows[j].DistanceKm }
         IN  UNION { { <<rows[i]>> \o rest :
                         rest \in ascending_orders(rows, I \ {i}) } :
                     i \in least }

\* line 205: sort_values('Distance (km)') with the default kind, quicksort,
\* which is not a stable sort: the result ascends in the column, and rows
\* with equal values come in an order the sort does not specify.
sort_values(rows) == ascending_orders(rows, 1..Len(rows))

Modes == {"all", "secured", "unsecured_secured", "unsecured", "other"}

\* lines 177, 183, 189: whether main calls find_suspicious_pairs for a pass
secured_selected == mode \in {"all", "secured"} /\ Len(secured) >= 2

cross_selected ==
    mode \in {"all", "unsecured_secured"}
        /\ Len(unsecured) > 0 /\ Len(secured) > 0

unsecured_selected == mode \in {"all", "unsecured"} /\ Len(unsecured) >= 2

\* one of the three blocks of lines 177-193
RunPass(pass, selected, df_primary, df_secondary, is_self_comparison, next) ==
    /\ pc = pass
    /\ IF ~selected
       THEN /\ pc' = next
            /\ log' = Append(log, [pass |-> pass, outcome |-> "skipped",
                                   indices |-> <<>>, results |-> <<>>])
            /\ UNCHANGED all_results
       ELSE \E call \in find_suspicious_pairs(df_primary, df_secondary,
                                              is_self_comparison) :
              /\ log' = Append(log, [pass |-> pass,
                                     outcome |-> call.outcome,
                                     indices |-> call.indices,
                                     results |-> call.results])
              /\ IF call.outcome = "raised"
                 THEN pc' = "aborted" /\ UNCHANGED all_results
                 ELSE pc' = next /\ all_results' = all_results \o call.results
    /\ UNCHANGED <<mode, df, result_df>>

SecuredPass ==
    RunPass("secured", secured_selected, secured, secured, TRUE, "cross")

CrossPass ==
    RunPass("cross", cross_selected, unsecured, secured, FALSE, "unsecured")

UnsecuredPass ==
    RunPass("unsecured", unsecured_selected, unsecured, unsecured, TRUE,
            "merge")

\* lines 198-205
WriteOutput ==
    /\ pc = "merge"
    /\ IF all_results # <<>>
       THEN result_df' \in sort_values(drop_duplicates(all_results))
       ELSE result_df' = <<>>
    /\ pc' = "done"
    /\ UNCHANGED <<mode, df, all_results, log>>

-----------------------------------------------------------------------------
(* Inputs *)

Digits == <<"1", "2", "3", "4", "5">>

\* the CustomerID of the i-th row when the input family leaves it open
DefaultId(i) == <<"X", Digits[i]>>

Auto == <<"AUTO">>

\* the latitude of the i-th row when the input family leaves it open: the
\* rows lie 10, 20, 40, ... m apart, so every row has one nearest neighbour
\* and no two pairs of rows are equally far apart
RECURSIVE DefaultLatitude(_)
DefaultLatitude(i) == IF i = 1 THEN 0 ELSE 2 * DefaultLatitude(i - 1) + 100

AutoLatitude == 0 - 1

CodeBlank == <<" ">>

CodeSet == <<"P", "1">>

NameAbc == <<"a", "b", "c">>

Families == {"near", "edge", "fail", "trim", "pipe", "missing", "codes"}

\* The rows the loader may hand over, by family; each family varies some
\* columns and fixes the others.
Shapes(family) ==
    CASE family = "near" ->
           { [CustomerID |-> Auto, ShopName |-> NameAbc,
              ProspectCode |-> CodeSet, Latitude |-> l] : l \in {0, 4, 6} }
      [] family = "edge" ->
           { [CustomerID |-> Auto, ShopName |-> NameAbc,
              ProspectCode |-> CodeSet, Latitude |-> l] :
                l \in {0, 1000, 2004, 20000000} }
      [] family = "fail" ->
           { [CustomerID |-> Auto, ShopName |-> NameAbc, ProspectCode |-> c,
              Latitude |-> l] :
                c \in {CodeBlank, CodeSet}, l \in {AutoLatitude, Inf} }
      [] family = "trim" ->
           { [CustomerID |-> id, ShopName |-> NameAbc, ProspectCode |-> c,
              Latitude |-> AutoLatitude] :
                c \in {CodeBlank, CodeSet},
                id \in {<<"a">>, <<" ", "a", " ">>, <<"b">>} }
      [] family = "pipe" ->
           { [CustomerID |-> id, ShopName |-> NameAbc,
              ProspectCode |-> CodeSet, Latitude |-> AutoLatitude] :
                id \in {<<"a", "|", "b", "|", "a">>, <<"a", "|", "b">>,
                        <<"b", "|", "a">>} }
      [] family = "names" ->
           { [CustomerID |-> Auto, ShopName |-> nm, ProspectCode |-> CodeSet,
              Latitude |-> AutoLatitude] :
                nm \in {<<"a", "b">>, <<"a", "B", "c", " ">>,
                        <<"A", "b", "c", " ", "m">>, <<"x", "a", "m">>,
                        <<"U1780", "a", "B", "c">>, <<" ", " ">>} }
      [] family = "missing" ->
           { [CustomerID |-> f[1], ShopName |-> f[2],
              ProspectCode |-> CodeBlank, Latitude |-> AutoLatitude] :
                f \in {<<Auto, NameAbc>>, <<NaN, NameAbc>>, <<Auto, NaN>>} }
      [] family = "codes" ->
           { [CustomerID |-> Auto, ShopName |-> NameAbc, ProspectCode |-> c,
              Latitude |-> AutoLatitude] :
                c \in {NaN, <<"n", "a", "n">>, <<"N", "o", "n", "e">>, <<>>,
                       CodeBlank, <<" ", "P", "1">>} }

\* lines 152-167: the i-th loaded row
loaded_row(shape, i) ==
    classify([CustomerID   |-> IF shape.CustomerID = Auto THEN DefaultId(i)
                               ELSE shape.CustomerID,
              ShopName     |-> shape.ShopName,
              ProspectCode |-> shape.ProspectCode,
              Latitude     |-> IF shape.Latitude = AutoLatitude
                               THEN DefaultLatitude(i) ELSE shape.Latitude])

\* main is entered with some mode and, after lines 152-167, some rows
InitFrom(families) ==
    /\ mode \in Modes
    /\ \E family \in families, n \in 0..MaxRecords :
         \E shapes \in [1..n -> Shapes(family)] :
            df = [i \in 1..n |-> loaded_row(shapes[i], i)]
    /\ all_results = <<>>
    /\ result_df = <<>>
    /\ log = <<>>
    /\ pc = "secured"

Init == InitFrom(Families)

InitNames == InitFrom({"names"})

Next == SecuredPass \/ CrossPass \/ UnsecuredPass \/ WriteOutput

Spec == Init /\ [][Next]_vars

\* the runs on inputs that differ in their shop names only
SpecNames == InitNames /\ [][Next]_vars

-----------------------------------------------------------------------------
(* Vocabulary of the properties *)

Range(f) == { f[i] : i \in DOMAIN f }

\* the CanonicalKey of an output row: the two trimmed CustomerIDs, sorted
\* lexicographically and joined
CanonicalKey(row) ==
    LET a == strip(row.CustomerIDA)
        b == strip(row.CustomerIDB)
    IN  IF StrLess(b, a) THEN b \o <<"|">> \o a ELSE a \o <<"|">> \o b

\* the unordered pair of trimmed CustomerIDs of an output row
IdPair(row) == {strip(row.CustomerIDA), strip(row.CustomerIDB)}

\* the exact distance of an output row, from its coordinates
ExactDistance(row) == geodesic(row.LatitudeA, row.LatitudeB)

PrimaryOf(pass) == IF pass = "secured" THEN secured ELSE unsecured

SecondaryOf(pass) == IF pass = "unsecured" THEN unsecured ELSE secured

IsSelfPass(pass) == pass \in {"secured", "unsecured"}

LabelOf(pass) ==
    CASE pass = "secured" -> "Secured vs Secured"
      [] pass = "cross" -> "Unsecured vs Secured"
      [] pass = "unsecured" -> "Unsecured vs Unsecured"

\* the log entries of the passes whose loop ran
Ran == { e \in Range(log) : e.outcome = "ran" }

\* the rows emitted by any pass so far
Emitted == UNION { Range(e.results) : e \in Range(log) }

\* the neighbour evaluated for primary record i in a pass that ran
\* (0 when the record is left without a candidate)
CandidateOf(e, i) ==
    LET idx == IF IsSelfPass(e.pass) THEN e.indices[i][2] ELSE e.indices[i][1]
    IN  IF idx > Len(SecondaryOf(e.pass)) \/ (IsSelfPass(e.pass) /\ idx = i)
        THEN 0 ELSE idx

\* primary record i of a pass that ran was evaluated against a neighbour and
\* the two pass every gate of lines 81-110
PassesGates(e, i) ==
    LET P == PrimaryOf(e.pass)
        S == SecondaryOf(e.pass)
        j == CandidateOf(e, i)
    IN  /\ j # 0
        /\ ~missing_fields(P[i]) /\ ~missing_fields(S[j])
        /\ strip(P[i].CustomerID) # strip(S[j].CustomerID)
        /\ geodesic(P[i].Latitude, S[j].Latitude) <= DISTANCE_THRESHOLD_KM
        /\ is_name_similar(P[i].ShopName, S[j].ShopName)

\* the two CustomerIDs of primary record i and its neighbour, as a row
CandidateIds(e, i) ==
    [CustomerIDA |-> PrimaryOf(e.pass)[i].CustomerID,
     CustomerIDB |-> SecondaryOf(e.pass)[CandidateOf(e, i)].CustomerID]

\* the position in all_results of the first row with the key of row
FirstFound(row) ==
    CHOOSE i \in 1..Len(all_results) :
        /\ CanonicalKey(all_results[i]) = CanonicalKey(row)
        /\ \A j \in 1..(i - 1) :
              CanonicalKey(all_results[j]) # CanonicalKey(row)

-----------------------------------------------------------------------------
(* Properties *)

\* C1: in every mode, the final output of main holds no two rows with the
\* same CanonicalKey.
C1_NoDuplicateKeys ==
    pc = "done" =>
        \A i, j \in 1..Len(result_df) :
            i # j => CanonicalKey(result_df[i]) # CanonicalKey(result_df[j])

\* a run in which two passes found the same key and the output keeps one row
C1_Witness ==
    /\ pc = "done"
    /\ result_df # <<>>
    /\ \E i, j \in 1..Len(all_results) :
          /\ i < j
          /\ CanonicalKey(all_results[i]) = CanonicalKey(all_results[j])
          /\ all_results[i].ComparisonType # all_results[j].ComparisonType

\* C2: no row emitted by any pass has the same trimmed CustomerID on both
\* sides; so a self pass never pairs a record with itself, nor two records
\* that share a CustomerID.
C2_DistinctCustomers ==
    \A row \in Emitted \cup Range(all_results) \cup Range(result_df) :
        strip(row.CustomerIDA) # strip(row.CustomerIDB)

\* a self pass evaluated, for some record, another record whose CustomerID
\* differs from its own only in surrounding blanks, with every other gate
\* open, and emitted nothing for the two
C2_Witness ==
    \E e \in Ran :
        /\ IsSelfPass(e.pass)
        /\ \E i \in 1..Len(PrimaryOf(e.pass)) :
              LET j == CandidateOf(e, i)
                  P == PrimaryOf(e.pass)
              IN  /\ j # 0
                  /\ ~missing_fields(P[i]) /\ ~missing_fields(P[j])
                  /\ P[i].CustomerID # P[j].CustomerID
                  /\ strip(P[i].CustomerID) = strip(P[j].CustomerID)
                  /\ ~beyond_threshold(geodesic(P[i].Latitude, P[j].Latitude))
                  /\ is_name_similar(P[i].ShopName, P[j].ShopName)
                  /\ \A row \in Range(e.results) :
                        IdPair(row) # {strip(P[i].CustomerID)}

\* the input is exactly two records with distinct non-empty CustomerIDs that
\* lie within the threshold of each other and whose names pass the name gate
TwoMatchingRecords ==
    /\ Len(df) = 2
    /\ \A i \in 1..2 :
          /\ ~missing_fields(df[i])
          /\ strip(df[i].CustomerID) # <<>>
          /\ isfinite(df[i].Latitude)
    /\ strip(df[1].CustomerID) # strip(df[2].CustomerID)
    /\ geodesic(df[1].Latitude, df[2].Latitude) <= DISTANCE_THRESHOLD_KM
    /\ is_name_similar(df[1].ShopName, df[2].ShopName)

\* C3: two such records give, in mode 'all', exactly one pair whatever
\* their classification, labelled by the pass that found it; and a cross pass
\* that the mode selects is skipped only when one of its sides is empty.
C3_OnePairForTwoRecords ==
    /\ (mode = "all" /\ pc = "done" /\ TwoMatchingRecords) =>
          /\ Len(result_df) = 1
          /\ \E e \in Ran :
                /\ result_df[1] \in Range(e.results)
                /\ result_df[1].ComparisonType = LabelOf(e.pass)
    /\ \A e \in Range(log) :
          (/\ e.pass = "cross"
           /\ mode \in {"all", "unsecured_secured"}
           /\ e.outcome \in {"skipped", "too_few"})
              => (Len(secured) = 0 \/ Len(unsecured) = 0)

\* C4: a pass whose index construction or bulk query fails contributes no
\* candidates and the run goes on to the remaining passes and the output.
C4_PassFailureIsContained ==
    \A e \in Range(log) :
        e.outcome \in {"raised", "query_failed"} =>
            (e.results = <<>> /\ pc # "aborted")

\* C5: the final output ascends in the exact distance, and two retained rows
\* with equal distance keep the order in which they were first discovered.
C5_SortedAndStable ==
    pc = "done" =>
        \A i, j \in 1..Len(result_df) :
            i < j =>
                /\ ExactDistance(result_df[i]) <= ExactDistance(result_df[j])
                /\ result_df[i].DistanceKm = result_df[j].DistanceKm =>
                      FirstFound(result_df[i]) < FirstFound(result_df[j])

\* C6: the distance gate is inclusive and decides on the unrounded distance:
\* every emitted row has exact distance <= the threshold, and, once the
\* passes are over, every candidate at exact distance <= the threshold that
\* passes the other gates has a row with its CanonicalKey in the results of
\* its pass.
C6_InclusiveExactGate ==
    /\ \A row \in Emitted : ExactDistance(row) <= DISTANCE_THRESHOLD_KM
    /\ pc \in {"merge", "aborted"} =>
          \A e \in Ran :
              \A i \in 1..Len(PrimaryOf(e.pass)) :
                  PassesGates(e, i) =>
                      \E row \in Range(e.results) :
                          CanonicalKey(row) = CanonicalKey(CandidateIds(e, i))

\* one pass emitted a row at exactly the threshold and rejected a candidate
\* 0.4 m beyond it, whose distance rounds to the threshold
C6_Witness ==
    \E e \in Ran :
        /\ \E row \in Range(e.results) :
              ExactDistance(row) = DISTANCE_THRESHOLD_KM
        /\ \E i \in 1..Len(PrimaryOf(e.pass)) :
              LET j == CandidateOf(e, i)
                  d == geodesic(PrimaryOf(e.pass)[i].Latitude,
                                SecondaryOf(e.pass)[j].Latitude)
              IN  /\ j # 0
                  /\ d > DISTANCE_THRESHOLD_KM
                  /\ round3(d) * 10 = DISTANCE_THRESHOLD_KM

\* C7: once the passes are over, every emitted row has two names that,
\* normalized and lower-cased, are at least MinNameLength long and one
\* contained in the other; and the name gate is symmetric in its two
\* arguments, for every two names of the input.
C7_NameGate ==
    /\ pc \in {"merge", "aborted"} =>
          \A row \in Range(all_results) :
              LET a == lower(row.ShopNameA)
                  b == lower(row.ShopNameB)
              IN  /\ Len(a) >= MIN_NAME_LENGTH
                  /\ Len(b) >= MIN_NAME_LENGTH
                  /\ Contains(a, b) \/ Contains(b, a)
    /\ pc = "secured" =>
          \A i, j \in 1..Len(df) :
              i < j =>
                is_name_similar(df[i].ShopName, df[j].ShopName)
                  = is_name_similar(df[j].ShopName, df[i].ShopName)

\* a pass emitted a row whose two names differ, while a neighbouring record
\* with a two-letter name was evaluated and appears in no row
C7_Witness ==
    \E e \in Ran :
        /\ \E row \in Range(e.results) :
              Len(row.ShopNameA) < Len(row.ShopNameB)
        /\ \E i \in 1..Len(PrimaryOf(e.pass)) :
              /\ Len(lower(normalize_name(PrimaryOf(e.pass)[i].ShopName))) = 2
              /\ CandidateOf(e, i) # 0
              /\ \A row \in Range(e.results) :
                    strip(PrimaryOf(e.pass)[i].CustomerID) \notin IdPair(row)

\* C8: the passes run in the order secured-self, cross, unsecured-self and
\* the accumulated list is their results in that order; within a pass the row
\* of a CanonicalKey is that of the first record that found it, with that
\* record on side A and the label of the pass; and of the accumulated rows
\* with one CanonicalKey the output keeps exactly the first, unchanged.
C8_FirstOccurrenceKept ==
    /\ \A i \in 1..Len(log) :
          log[i].pass = <<"secured", "cross", "unsecured">>[i]
    /\ pc \in {"merge", "done"} =>
          /\ Len(log) = 3
          /\ all_results = log[1].results \o log[2].results \o log[3].results
    /\ pc \in {"merge", "aborted"} =>
          \A e \in Ran :
              \A row \in Range(e.results) :
                  \E i \in 1..Len(PrimaryOf(e.pass)) :
                      /\ PassesGates(e, i)
                      /\ CanonicalKey(CandidateIds(e, i)) = CanonicalKey(row)
                      /\ \A h \in 1..(i - 1) :
                            PassesGates(e, h) =>
                                CanonicalKey(CandidateIds(e, h))
                                    # CanonicalKey(row)
                      /\ row.CustomerIDA
                            = strip(PrimaryOf(e.pass)[i].CustomerID)
                      /\ row.LatitudeA = PrimaryOf(e.pass)[i].Latitude
                      /\ row.ComparisonType = LabelOf(e.pass)
    /\ pc = "done" =>
          /\ \A r \in Range(result_df) : r = all_results[FirstFound(r)]
          /\ \A i \in 1..Len(all_results) :
                \E r \in Range(result_df) :
                    CanonicalKey(r) = CanonicalKey(all_results[i])

\* a key found by the secured pass and again, the other way round, by the
\* cross pass: the output holds the secured pass's row only
C8_Witness ==
    /\ pc = "done"
    /\ \E i, j \in 1..Len(all_results) :
          /\ i < j
          /\ CanonicalKey(all_results[i]) = CanonicalKey(all_results[j])
          /\ all_results[i].CustomerIDA = all_results[j].CustomerIDB
          /\ all_results[i].CustomerIDA # all_results[j].CustomerIDA
          /\ all_results[i].ComparisonType = "Secured vs Secured"
          /\ all_results[j].ComparisonType = "Unsecured vs Secured"
          /\ all_results[i] \in Range(result_df)
          /\ all_results[j] \notin Range(result_df)

\* C9: in a self pass the rank-0 neighbour of every record is the record
\* itself, and a record with another record within the query radius gets a
\* candidate other than itself.
C9_RankOneIsTheCandidate ==
    \A e \in Ran :
        IsSelfPass(e.pass) =>
            \A i \in 1..Len(PrimaryOf(e.pass)) :
                /\ e.indices[i][1] = i
                /\ (\E j \in 1..Len(PrimaryOf(e.pass)) :
                       /\ j # i
                       /\ within_upper_bound(
                              tree_distance(PrimaryOf(e.pass)[i].Latitude,
                                            PrimaryOf(e.pass)[j].Latitude)))
                      => CandidateOf(e, i) \notin {0, i}

\* C10: the key identifies the unordered pair of trimmed CustomerIDs: two
\* found rows have the same CanonicalKey exactly when they have the same pair,
\* so deduplication by key, within a pass and in the output, loses no pair of
\* CustomerIDs that passed the gates and keeps none twice.
C10_KeyIdentifiesPair ==
    /\ \A r1, r2 \in Range(all_results) :
          (CanonicalKey(r1) = CanonicalKey(r2)) <=> (IdPair(r1) = IdPair(r2))
    /\ \A e \in Ran :
          \A i \in 1..Len(PrimaryOf(e.pass)) :
              PassesGates(e, i) =>
                  \E row \in Range(e.results) :
                      IdPair(row) = IdPair(CandidateIds(e, i))
    /\ pc = "done" =>
          /\ \A r \in Range(all_results) :
                \E q \in Range(result_df) : IdPair(q) = IdPair(r)
          /\ \A a, b \in 1..Len(result_df) :
                a # b => IdPair(result_df[a]) # IdPair(result_df[b])

=============================================================================
